---- MODULE Spec2Model ----
(***************************************************************************)
(* A model of deadoralive.py: the link prober check_url(), the loop        *)
(* get_check_and_report() over its four collaborators, and the             *)
(* single-instance port guard of main().                                   *)
(***************************************************************************)
EXTENDS Integers, Sequences, FiniteSets, TLC

VARIABLES
    cu_pc, cu_url, cu_get, cu_ret,
    pc, resource_ids, pos, url, result, raised, calls,
    main, bound

vars == <<cu_pc, cu_url, cu_get, cu_ret,
          pc, resource_ids, pos, url, result, raised, calls,
          main, bound>>

main_vars == <<main, bound>>

cu_vars == <<cu_pc, cu_url, cu_get, cu_ret>>

gcr_vars == <<pc, resource_ids, pos, url, result, raised, calls>>

(***************************************************************************)
(* Values                                                                  *)
(***************************************************************************)

\* Python's None, as the value of result["status"].
None == -1

\* No exception is propagating.
NoException == "no exception"

\* The URLs a client site hands out.
Urls == {"url_1", "url_2"}

\* Status codes of the final response of a GET.
StatusCodes == {200, 204, 300, 401, 404, 500}

\* Reason phrases as sent by the server on the status line; a status line
\* may carry none, and the response's reason is then the empty string.
ReasonPhrases == {"OK", "Unauthorized", "Internal Server Error", ""}

\* The exception classes of requests.exceptions, all subclasses of RequestException.
RequestExceptionClasses ==
    {"RequestException", "HTTPError", "ConnectionError", "Timeout", "TooManyRedirects"}

\* str(err) of the transport errors requests.get() raises.
ErrorTexts == {"Oh no invalid HTTP!", "Connection refused"}

\* The outcomes of requests.get(url): a response, or a raised RequestException.
Responses == [kind : {"response"}, status_code : StatusCodes, reason : ReasonPhrases]

TransportErrors ==
    [kind : {"error"}, exc : {"RequestException", "ConnectionError", "Timeout"},
     message : ErrorTexts]

GetOutcomes == Responses \cup TransportErrors

(***************************************************************************)
(* check_url                                                               *)
(***************************************************************************)

\* d[k] = v on a Python dict.
dict_set(d, k, v) == (k :> v) @@ d

\* str(err): the message the exception was raised with.
str(err) == err.message

\* Variant of raise_for_status that raises for every status outside 2xx.
raise_for_status_2xx_only(response) ==
    IF response.status_code < 200 \/ response.status_code >= 300
    THEN [kind |-> "error", exc |-> "HTTPError", message |-> "HTTP Error"]
    ELSE [kind |-> "ok"]

\* response.raise_for_status(): raises HTTPError for a 4xx or 5xx status code.
raise_for_status(response) ==
    IF response.status_code >= 400 /\ response.status_code < 600
    THEN [kind |-> "error", exc |-> "HTTPError", message |-> "HTTP Error"]
    ELSE [kind |-> "ok"]

\* Variant of the except clause that catches HTTPError alone.
except_only_HTTPError(exc) == exc = "HTTPError"

\* except requests.exceptions.RequestException
except_RequestException(exc) == exc \in RequestExceptionClasses

\* Variant of the except body that fills in neither reason nor status.
except_body_keeps_missing(res, err) == dict_set(res, "alive", FALSE)

\* Variant of the except body that overwrites reason and status unconditionally.
except_body_overwrites(res, err) ==
    dict_set(dict_set(dict_set(res, "alive", FALSE), "reason", str(err)), "status", None)

\* The body of the except clause of check_url.
except_body(res, err) ==
    LET a == dict_set(res, "alive", FALSE)
        b == IF "reason" \notin DOMAIN a THEN dict_set(a, "reason", str(err)) ELSE a
    IN  IF "status" \notin DOMAIN b THEN dict_set(b, "status", None) ELSE b

\* The four assert statements before the return.
asserts_hold(res) ==
    /\ "url" \in DOMAIN res
    /\ "alive" \in DOMAIN res /\ res["alive"] \in BOOLEAN
    /\ "status" \in DOMAIN res
    /\ "reason" \in DOMAIN res

\* check_url(url), given the outcome `get` of requests.get(url): the
\* exception that leaves the function (NoException on a return) and the
\* returned dict.
check_url(u, get) ==
    LET r0 == ("url" :> u)
        r1 == IF get.kind = "response"
              THEN dict_set(dict_set(r0, "status", get.status_code), "reason", get.reason)
              ELSE r0
        err == IF get.kind = "response" THEN raise_for_status(get) ELSE get
        r2 == IF err.kind = "ok" THEN dict_set(r1, "alive", TRUE)
              ELSE IF except_RequestException(err.exc) THEN except_body(r1, err)
              ELSE r1
    IN  IF err.kind = "error" /\ ~except_RequestException(err.exc)
        THEN [exc |-> err.exc, value |-> r2]
        ELSE IF ~asserts_hold(r2) THEN [exc |-> "AssertionError", value |-> r2]
        ELSE [exc |-> NoException, value |-> r2]

(***************************************************************************)
(* Specification of check_url on every URL and every outcome of the GET    *)
(***************************************************************************)

GcrIdle ==
    /\ pc = "idle" /\ resource_ids = <<>> /\ pos = 0 /\ url = "" /\ result = <<>>
    /\ raised = NoException /\ calls = <<>>

MainIdle == main = <<>> /\ bound = <<>>

CuIdle ==
    /\ cu_pc = "idle" /\ cu_url = "" /\ cu_get = [kind |-> "none"]
    /\ cu_ret = [exc |-> NoException, value |-> <<>>]

InitCheckUrl ==
    /\ cu_pc = "call"
    /\ cu_url \in Urls
    /\ cu_get \in GetOutcomes
    /\ cu_ret = [exc |-> NoException, value |-> <<>>]
    /\ GcrIdle
    /\ MainIdle

CallCheckUrl ==
    /\ cu_pc = "call"
    /\ cu_ret' = check_url(cu_url, cu_get)
    /\ cu_pc' = "returned"
    /\ UNCHANGED <<cu_url, cu_get>>
    /\ UNCHANGED <<gcr_vars, main_vars>>

NextCheckUrl == CallCheckUrl

SpecCheckUrl == InitCheckUrl /\ [][NextCheckUrl]_vars

(***************************************************************************)
(* Properties of check_url                                                 *)
(***************************************************************************)

Returned == cu_pc = "returned"

GotResponse == cu_get.kind = "response"

ResultFields == {"url", "alive", "status", "reason"}

\* check_url returned a dict with all four fields.
ReturnedResult ==
    /\ Returned
    /\ cu_ret.exc = NoException
    /\ DOMAIN cu_ret.value = ResultFields

\* C5: check_url never raises to its caller: whatever the GET did (a success
\* response, an error response, or a raised transport error), it returns a
\* result dict, and a failure is recorded in that dict as alive = False with
\* the failure's reason.
C5_NeverRaises ==
    Returned =>
        /\ cu_ret.exc = NoException
        /\ DOMAIN cu_ret.value = ResultFields
        /\ ~GotResponse =>
              /\ cu_ret.value["alive"] = FALSE
              /\ cu_ret.value["reason"] = str(cu_get)
        /\ (GotResponse /\ cu_get.status_code >= 400) =>
              /\ cu_ret.value["alive"] = FALSE
              /\ cu_ret.value["status"] = cu_get.status_code

\* C5 witness: the GET raised a transport error and check_url returned.
C5_Witness ==
    /\ ReturnedResult
    /\ ~GotResponse
    /\ cu_get.exc = "ConnectionError"
    /\ cu_ret.value["alive"] = FALSE

\* C6 as stated: alive is true iff a response was received with a 2xx status
\* code; a response with any other status code gives alive = False with that
\* code and the response's reason phrase.
C6_AliveIff2xx ==
    Returned =>
        /\ ReturnedResult
        /\ cu_ret.value["alive"] = TRUE <=>
              (GotResponse /\ cu_get.status_code >= 200 /\ cu_get.status_code < 300)
        /\ (GotResponse /\ ~(cu_get.status_code >= 200 /\ cu_get.status_code < 300)) =>
              /\ cu_ret.value["alive"] = FALSE
              /\ cu_ret.value["status"] = cu_get.status_code
              /\ cu_ret.value["reason"] = cu_get.reason

\* C6 amended: alive is true iff a response was received and its status code
\* is not an error status (not 4xx or 5xx); a response with a 4xx or 5xx
\* status gives alive = False, status = that code and reason = the response's
\* reason phrase, not the exception's description.
C6_AliveIffNotErrorStatus ==
    Returned =>
        /\ ReturnedResult
        /\ cu_ret.value["alive"] = TRUE <=>
              (GotResponse /\ ~(cu_get.status_code >= 400 /\ cu_get.status_code < 600))
        /\ (GotResponse /\ cu_get.status_code >= 400 /\ cu_get.status_code < 600) =>
              /\ cu_ret.value["alive"] = FALSE
              /\ cu_ret.value["status"] = cu_get.status_code
              /\ cu_ret.value["reason"] = cu_get.reason

\* C6 witness: a 401 response with its own reason phrase, reported dead.
C6_Witness ==
    /\ ReturnedResult
    /\ GotResponse
    /\ cu_get.status_code = 401
    /\ cu_get.reason = "Unauthorized"
    /\ cu_ret.value["alive"] = FALSE
    /\ cu_ret.value["reason"] = "Unauthorized"

\* C7: every result has exactly the fields url, alive, status and reason, url
\* is the URL passed in, alive is a boolean, status is None exactly when no
\* response was received and is the response's status code otherwise.
C7_FourFields ==
    Returned =>
        /\ cu_ret.exc = NoException
        /\ DOMAIN cu_ret.value = ResultFields
        /\ cu_ret.value["url"] = cu_url
        /\ cu_ret.value["alive"] \in BOOLEAN
        /\ cu_ret.value["status"] = None <=> ~GotResponse
        /\ GotResponse => cu_ret.value["status"] = cu_get.status_code

\* C7 witness: no response was received and the returned status is None.
C7_Witness ==
    /\ ReturnedResult
    /\ ~GotResponse
    /\ cu_ret.value["status"] = None
    /\ cu_ret.value["url"] = cu_url

\* C8 as stated: reason is always a non-empty string, the response's reason
\* phrase when a response was received and the transport error's text
\* otherwise.
C8_ReasonNonEmpty ==
    Returned =>
        /\ ReturnedResult
        /\ cu_ret.value["reason"] # ""
        /\ GotResponse => cu_ret.value["reason"] = cu_get.reason
        /\ ~GotResponse => cu_ret.value["reason"] = str(cu_get)

\* C8 amended: reason is always present and is exactly the response's reason
\* phrase when a response was received, and the transport error's text
\* otherwise; it is empty only when a response was received whose status
\* line carried no reason phrase.
C8_ReasonIsPhraseOrErrorText ==
    Returned =>
        /\ ReturnedResult
        /\ GotResponse => cu_ret.value["reason"] = cu_get.reason
        /\ ~GotResponse => cu_ret.value["reason"] = str(cu_get)
        /\ cu_ret.value["reason"] = "" => (GotResponse /\ cu_get.reason = "")

\* C8 witness: no response was received and reason is the error's text.
C8_Witness ==
    /\ ReturnedResult
    /\ ~GotResponse
    /\ cu_get.message = "Oh no invalid HTTP!"
    /\ cu_ret.value["reason"] = "Oh no invalid HTTP!"

(***************************************************************************)
(* get_check_and_report                                                    *)
(***************************************************************************)

\* The longest list of resource IDs the client site returns.
MaxIds == 3

ResourceIds == {"resource_id_1", "resource_id_2"}

\* The lists get_resource_ids_to_check() can return (response.json()).
IdLists == UNION {[1..n -> ResourceIds] : n \in 0..MaxIds}

\* What get_resource_ids_to_check() raises: CouldNotGetResourceIDsError on a
\* response that is not ok, or the transport error of its requests.get().
ListerErrors == {"CouldNotGetResourceIDsError", "ConnectionError"}

\* What get_url_for_id() raises besides CouldNotGetURLError: the transport
\* error of its requests.get().
ResolverOtherErrors == {"ConnectionError"}

\* What upsert_result() raises: the transport error of its requests.post().
ReporterErrors == {"ConnectionError"}

\* The outcomes of the GET the prober makes within a cycle.
ProbeOutcomes ==
    {[kind |-> "response", status_code |-> 200, reason |-> "OK"],
     [kind |-> "response", status_code |-> 500, reason |-> "Internal Server Error"],
     [kind |-> "error", exc |-> "ConnectionError", message |-> "Connection refused"]}

NoResult == <<>>

\* One call of a collaborator as a mock records it: the function, its
\* arguments and what it returned or raised (pos is the position in
\* resource_ids of the ID the call was made for, 0 for the lister).
Call(fn, p, id, u, res, exc) ==
    [fn |-> fn, pos |-> p, resource_id |-> id, url |-> u, result |-> res, exc |-> exc]

\* The for statement: the next element of resource_ids, or the end of the loop.
next_iteration(ids, p) ==
    IF p < Len(ids) THEN [pc |-> "resolve", pos |-> p + 1] ELSE [pc |-> "done", pos |-> p]

Init ==
    /\ pc = "start"
    /\ resource_ids = <<>>
    /\ pos = 0
    /\ url = ""
    /\ result = NoResult
    /\ raised = NoException
    /\ calls = <<>>
    /\ CuIdle
    /\ MainIdle

\* resource_ids = get_resource_ids_to_check(client_site_url, apikey) returns.
ListerReturns ==
    /\ pc = "start"
    /\ \E ids \in IdLists :
          /\ resource_ids' = ids
          /\ calls' = Append(calls, Call("get_resource_ids_to_check", 0, "", "", NoResult,
                                         NoException))
          /\ pc' = next_iteration(ids, 0).pc
          /\ pos' = next_iteration(ids, 0).pos
    /\ UNCHANGED <<url, result, raised>>
    /\ UNCHANGED <<cu_vars, main_vars>>

\* Variant in which the lister's exception is swallowed and the run ends normally.
ListerRaises_swallowed ==
    /\ pc = "start"
    /\ \E exc \in ListerErrors :
          calls' = Append(calls, Call("get_resource_ids_to_check", 0, "", "", NoResult, exc))
    /\ pc' = "done"
    /\ UNCHANGED <<resource_ids, pos, url, result, raised>>
    /\ UNCHANGED <<cu_vars, main_vars>>

\* get_resource_ids_to_check() raises: nothing catches it, the run ends.
ListerRaises ==
    /\ pc = "start"
    /\ \E exc \in ListerErrors :
          /\ calls' = Append(calls, Call("get_resource_ids_to_check", 0, "", "", NoResult, exc))
          /\ raised' = exc
    /\ pc' = "raised"
    /\ UNCHANGED <<resource_ids, pos, url, result>>
    /\ UNCHANGED <<cu_vars, main_vars>>

\* url = get_url_for_id(client_site_url, apikey, resource_id) returns.
ResolverReturns ==
    /\ pc = "resolve"
    /\ \E u \in Urls :
          /\ url' = u
          /\ calls' = Append(calls, Call("get_url_for_id", pos, resource_ids[pos], u, NoResult,
                                         NoException))
    /\ pc' = "probe"
    /\ UNCHANGED <<resource_ids, pos, result, raised>>
    /\ UNCHANGED <<cu_vars, main_vars>>

\* Variant of the skip without its continue: control falls through to the probe.
ResolverSkips_no_continue ==
    /\ pc = "resolve"
    /\ calls' = Append(calls, Call("get_url_for_id", pos, resource_ids[pos], "", NoResult,
                                   "CouldNotGetURLError"))
    /\ pc' = "probe"
    /\ UNCHANGED <<resource_ids, pos, url, result, raised>>
    /\ UNCHANGED <<cu_vars, main_vars>>

\* get_url_for_id() raises CouldNotGetURLError: log the skip and continue.
ResolverSkips ==
    /\ pc = "resolve"
    /\ calls' = Append(calls, Call("get_url_for_id", pos, resource_ids[pos], "", NoResult,
                                   "CouldNotGetURLError"))
    /\ pc' = next_iteration(resource_ids, pos).pc
    /\ pos' = next_iteration(resource_ids, pos).pos
    /\ UNCHANGED <<resource_ids, url, result, raised>>
    /\ UNCHANGED <<cu_vars, main_vars>>

\* get_url_for_id() raises anything else: the except clause does not match,
\* the exception leaves get_check_and_report.
ResolverRaises ==
    /\ pc = "resolve"
    /\ \E exc \in ResolverOtherErrors :
          /\ calls' = Append(calls, Call("get_url_for_id", pos, resource_ids[pos], "", NoResult,
                                         exc))
          /\ raised' = exc
    /\ pc' = "raised"
    /\ UNCHANGED <<resource_ids, pos, url, result>>
    /\ UNCHANGED <<cu_vars, main_vars>>

\* Variant of the probe step that reports a result only when it is alive.
Probes_reports_alive_only ==
    /\ pc = "probe"
    /\ \E get \in ProbeOutcomes :
          LET r == check_url(url, get)
              nxt == next_iteration(resource_ids, pos)
          IN  /\ calls' = Append(calls, Call("check_url", pos, resource_ids[pos], url, r.value,
                                             r.exc))
              /\ result' = r.value
              /\ raised' = r.exc
              /\ pc' = IF r.value["alive"] THEN "report" ELSE nxt.pc
              /\ pos' = IF r.value["alive"] THEN pos ELSE nxt.pos
    /\ UNCHANGED <<resource_ids, url>>
    /\ UNCHANGED <<cu_vars, main_vars>>

\* result = check_url(url), then the log line for the result.
Probes ==
    /\ pc = "probe"
    /\ \E get \in ProbeOutcomes :
          LET r == check_url(url, get)
          IN  /\ calls' = Append(calls, Call("check_url", pos, resource_ids[pos], url, r.value,
                                             r.exc))
              /\ result' = IF r.exc = NoException THEN r.value ELSE result
              /\ raised' = r.exc
              /\ pc' = IF r.exc = NoException THEN "report" ELSE "raised"
    /\ UNCHANGED <<resource_ids, pos, url>>
    /\ UNCHANGED <<cu_vars, main_vars>>

\* upsert_result(client_site_url, apikey, resource_id=resource_id, result=result)
\* returns; the loop goes on to the next ID.
ReporterReturns ==
    /\ pc = "report"
    /\ calls' = Append(calls, Call("upsert_result", pos, resource_ids[pos], "", result,
                                   NoException))
    /\ pc' = next_iteration(resource_ids, pos).pc
    /\ pos' = next_iteration(resource_ids, pos).pos
    /\ UNCHANGED <<resource_ids, url, result, raised>>
    /\ UNCHANGED <<cu_vars, main_vars>>

\* upsert_result() raises: nothing catches it, the run ends.
ReporterRaises ==
    /\ pc = "report"
    /\ \E exc \in ReporterErrors :
          /\ calls' = Append(calls, Call("upsert_result", pos, resource_ids[pos], "", result,
                                         exc))
          /\ raised' = exc
    /\ pc' = "raised"
    /\ UNCHANGED <<resource_ids, pos, url, result>>
    /\ UNCHANGED <<cu_vars, main_vars>>

Next ==
    \/ ListerReturns
    \/ ListerRaises
    \/ ResolverReturns
    \/ ResolverSkips
    \/ ResolverRaises
    \/ Probes
    \/ ReporterReturns
    \/ ReporterRaises

Spec == Init /\ [][Next]_vars

(***************************************************************************)
(* Properties of get_check_and_report                                      *)
(***************************************************************************)

\* The calls one collaborator received, in order (a mock's call_args_list).
CallsOf(fn) == SelectSeq(calls, LAMBDA c : c.fn = fn)

\* The calls made for the ID at position p of resource_ids.
CallsAt(fn, p) == SelectSeq(calls, LAMBDA c : c.fn = fn /\ c.pos = p)

\* No collaborator has raised.
NoFailure == \A k \in 1..Len(calls) : calls[k].exc = NoException

Finished == pc \in {"done", "raised"}

\* C1: in a finished run where no collaborator failed, the lister was called
\* exactly once, and the resolver, the prober and the reporter were each
\* called exactly once per listed ID, in listing order: the resolver with the
\* ID, the prober with the URL the resolver returned for it, the reporter
\* with the ID and exactly the result the prober returned, alive or dead.
C1_HappyRun ==
    (pc = "done" /\ NoFailure) =>
        LET n == Len(resource_ids)
            resolved == CallsOf("get_url_for_id")
            probed == CallsOf("check_url")
            reported == CallsOf("upsert_result")
        IN  /\ Len(CallsOf("get_resource_ids_to_check")) = 1
            /\ Len(resolved) = n /\ Len(probed) = n /\ Len(reported) = n
            /\ \A k \in 1..n :
                  /\ resolved[k].resource_id = resource_ids[k]
                  /\ probed[k].url = resolved[k].url
                  /\ reported[k].resource_id = resource_ids[k]
                  /\ reported[k].result = probed[k].result
                  /\ reported[k].result["url"] = resolved[k].url

\* C1 witness: three IDs, the first and third alive, the second dead, all
\* three reported.
C1_Witness ==
    /\ pc = "done" /\ NoFailure
    /\ Len(resource_ids) = 3
    /\ Len(CallsOf("upsert_result")) = 3
    /\ CallsOf("upsert_result")[1].result["alive"] = TRUE
    /\ CallsOf("upsert_result")[2].result["alive"] = FALSE
    /\ CallsOf("upsert_result")[2].result["status"] = 500
    /\ CallsOf("upsert_result")[3].result["alive"] = TRUE

\* The resolver raised CouldNotGetURLError for the ID at position p.
SkippedAt(p) ==
    \E k \in 1..Len(calls) :
        /\ calls[k].fn = "get_url_for_id"
        /\ calls[k].pos = p
        /\ calls[k].exc = "CouldNotGetURLError"

\* The resolver returned a URL for the ID at position p.
ResolvedAt(p) ==
    \E k \in 1..Len(calls) :
        /\ calls[k].fn = "get_url_for_id"
        /\ calls[k].pos = p
        /\ calls[k].exc = NoException

\* C2: when the resolver raises CouldNotGetURLError for a listed ID, neither
\* the prober nor the reporter is called for that ID, and by the end of the
\* run every ID listed after it has been resolved and, where its resolution
\* succeeded, probed and reported.
C2_SkipAndContinue ==
    \A p \in 1..Len(resource_ids) :
        SkippedAt(p) =>
            /\ Len(CallsAt("check_url", p)) = 0
            /\ Len(CallsAt("upsert_result", p)) = 0
            /\ Finished =>
                  \A q \in (p + 1)..Len(resource_ids) :
                      /\ Len(CallsAt("get_url_for_id", q)) = 1
                      /\ ResolvedAt(q) =>
                            /\ Len(CallsAt("check_url", q)) = 1
                            /\ Len(CallsAt("upsert_result", q)) = 1

\* C3: when the lister raises, the run ends with that error and no resolver,
\* prober or reporter call is ever made.
C3_ListerFailureAborts ==
    (Len(calls) >= 1 /\ calls[1].exc # NoException) =>
        /\ calls[1].fn = "get_resource_ids_to_check"
        /\ pc = "raised"
        /\ raised = calls[1].exc
        /\ Len(calls) = 1
        /\ resource_ids = <<>>

\* C3 witness: the lister raised CouldNotGetResourceIDsError and the run ended.
C3_Witness ==
    /\ pc = "raised"
    /\ Len(calls) = 1
    /\ calls[1].fn = "get_resource_ids_to_check"
    /\ calls[1].exc = "CouldNotGetResourceIDsError"
    /\ raised = "CouldNotGetResourceIDsError"

\* C4: only a failure of the lister ends the run: a run that ended with an
\* exception ended in the lister, and a run whose listing succeeded has made
\* the resolver call for every listed ID by the time it ends.
C4_OnlyListingAborts ==
    /\ pc = "raised" => calls[Len(calls)].fn = "get_resource_ids_to_check"
    /\ (Finished /\ Len(calls) >= 1 /\ calls[1].exc = NoException) =>
          \A p \in 1..Len(resource_ids) : Len(CallsAt("get_url_for_id", p)) = 1

\* C10: the lister call comes first, and the calls for one ID are consecutive:
\* a probe directly follows the successful resolve of the same ID, a report
\* directly follows the probe of the same ID, and the resolve of an ID
\* directly follows the lister call (first ID) or the last call made for the
\* ID before it (its report, or its failed resolve).
C10_NoInterleaving ==
    \A k \in 1..Len(calls) :
        /\ calls[k].fn = "get_resource_ids_to_check" <=> k = 1
        /\ calls[k].fn = "get_url_for_id" =>
              /\ calls[k].pos \in 1..Len(resource_ids)
              /\ calls[k].resource_id = resource_ids[calls[k].pos]
              /\ \/ calls[k].pos = 1 /\ k = 2
                 \/ /\ calls[k].pos > 1
                    /\ calls[k - 1].pos = calls[k].pos - 1
                    /\ \/ calls[k - 1].fn = "upsert_result"
                       \/ /\ calls[k - 1].fn = "get_url_for_id"
                          /\ calls[k - 1].exc = "CouldNotGetURLError"
        /\ calls[k].fn = "check_url" =>
              /\ calls[k - 1].fn = "get_url_for_id"
              /\ calls[k - 1].exc = NoException
              /\ calls[k - 1].pos = calls[k].pos
        /\ calls[k].fn = "upsert_result" =>
              /\ calls[k - 1].fn = "check_url"
              /\ calls[k - 1].pos = calls[k].pos

\* C10 witness: a finished run over three IDs, one of them skipped, with the
\* calls of the other two in resolve, probe, report order.
C10_Witness ==
    /\ pc = "done"
    /\ Len(resource_ids) = 3
    /\ Len(calls) = 8
    /\ SkippedAt(2)
    /\ calls[6].fn = "get_url_for_id" /\ calls[6].pos = 3
    /\ calls[7].fn = "check_url" /\ calls[7].pos = 3
    /\ calls[8].fn = "upsert_result" /\ calls[8].pos = 3

(***************************************************************************)
(* main: the single-instance guard                                         *)
(***************************************************************************)

\* The number of instances of main started side by side.
NumProcs == 2

\* The most collaborator calls one instance's cycle is followed for.
MaxCalls == 2

\* --port, default 4723.
DefaultPort == 4723

\* The errno main takes for "address already in use".
EADDRINUSE == 98

Procs == 1..NumProcs

Ports == {DefaultPort, DefaultPort + 1}

\* errno values of a bind that fails for another reason (EACCES, EADDRNOTAVAIL).
OtherErrnos == {13, 99}

\* s.bind(('localhost', port)): 0 when the bind succeeds, else the errno of
\* the socket.error. A port some socket is bound to gives EADDRINUSE; a
\* free port is bound, or the bind fails for another reason.
bind(b, port) == IF b[port] # 0 THEN {EADDRINUSE} ELSE {0} \cup OtherErrnos

\* Variant of the except clause that carries on when the address is in use.
after_bind_ignores_in_use(errno) ==
    IF errno = 0 \/ errno = EADDRINUSE THEN "listing" ELSE "bind_raised"

\* The try/except around s.bind(): go on to get_check_and_report, sys.exit
\* with the message, or re-raise.
after_bind(errno) ==
    IF errno = 0 THEN "listing"
    ELSE IF errno = EADDRINUSE THEN "exit_in_use"
    ELSE "bind_raised"

\* The process ends: its socket is closed and the port it held is free again.
release(b, p) == [q \in DOMAIN b |-> IF b[q] = p THEN 0 ELSE b[q]]

Started(port) ==
    [pc |-> "bind", port |-> port, errno |-> 0, message_port |-> 0, calls |-> 0]

InitMain ==
    /\ main \in {[p \in Procs |-> Started(port_of[p])] : port_of \in [Procs -> Ports]}
    /\ bound = [port \in Ports |-> 0]
    /\ cu_pc = "idle" /\ cu_url = "" /\ cu_get = [kind |-> "none"]
    /\ cu_ret = [exc |-> NoException, value |-> <<>>]
    /\ GcrIdle

\* s = socket.socket(); s.bind(('localhost', port)) and the except clause.
MainBind(p) ==
    /\ main[p].pc = "bind"
    /\ \E errno \in bind(bound, main[p].port) :
          /\ main' = [main EXCEPT ![p].pc = after_bind(errno),
                                  ![p].errno = errno,
                                  ![p].message_port =
                                      IF after_bind(errno) = "exit_in_use"
                                      THEN main[p].port ELSE 0]
          /\ bound' = IF errno = 0 THEN [bound EXCEPT ![main[p].port] = p] ELSE bound
    /\ UNCHANGED <<cu_vars, gcr_vars>>

\* get_check_and_report calls the lister, which returns.
MainListerReturns(p) ==
    /\ main[p].pc = "listing"
    /\ main' = [main EXCEPT ![p].pc = "looping", ![p].calls = 1]
    /\ UNCHANGED bound
    /\ UNCHANGED <<cu_vars, gcr_vars>>

\* One more collaborator call of the loop returns.
MainLoopCall(p) ==
    /\ main[p].pc = "looping"
    /\ main[p].calls < MaxCalls
    /\ main' = [main EXCEPT ![p].calls = @ + 1]
    /\ UNCHANGED bound
    /\ UNCHANGED <<cu_vars, gcr_vars>>

\* A collaborator call raises out of get_check_and_report and main: the
\* process ends with a traceback.
MainCycleRaises(p) ==
    /\ main[p].pc \in {"listing", "looping"}
    /\ main' = [main EXCEPT ![p].pc = "crashed", ![p].calls = @ + 1]
    /\ bound' = release(bound, p)
    /\ UNCHANGED <<cu_vars, gcr_vars>>

\* get_check_and_report returns and main with it: the process ends.
MainReturns(p) ==
    /\ main[p].pc = "looping"
    /\ main' = [main EXCEPT ![p].pc = "finished"]
    /\ bound' = release(bound, p)
    /\ UNCHANGED <<cu_vars, gcr_vars>>

\* An ended instance is started again from outside, on any port.
MainStartedAgain(p) ==
    /\ main[p].pc \in {"exit_in_use", "bind_raised", "crashed", "finished"}
    /\ \E port \in Ports : main' = [main EXCEPT ![p] = Started(port)]
    /\ UNCHANGED bound
    /\ UNCHANGED <<cu_vars, gcr_vars>>

NextMain ==
    \E p \in Procs :
        \/ MainBind(p)
        \/ MainListerReturns(p)
        \/ MainLoopCall(p)
        \/ MainCycleRaises(p)
        \/ MainReturns(p)
        \/ MainStartedAgain(p)

SpecMain == InitMain /\ [][NextMain]_vars

\* The instance is inside get_check_and_report.
InCycle(p) == main[p].pc \in {"listing", "looping"}

\* C9: two instances started with the same port are never inside
\* get_check_and_report together; an instance that found the port bound has
\* exited with the message naming its port before any collaborator call; an
\* instance inside its cycle holds its port; and a bind that failed for
\* another reason was re-raised, with no exit message and no collaborator
\* call.
C9_SingleInstance ==
    /\ \A p, q \in Procs :
          (p # q /\ main[p].port = main[q].port) => ~(InCycle(p) /\ InCycle(q))
    /\ \A p \in Procs :
          /\ main[p].pc = "exit_in_use" =>
                /\ main[p].errno = EADDRINUSE
                /\ main[p].message_port = main[p].port
                /\ main[p].calls = 0
          /\ InCycle(p) => bound[main[p].port] = p
          /\ (main[p].pc = "bind" /\ bound[main[p].port] # 0) =>
                \A errno \in bind(bound, main[p].port) : after_bind(errno) = "exit_in_use"
          /\ main[p].pc = "bind_raised" =>
                /\ main[p].errno \notin {0, EADDRINUSE}
                /\ main[p].message_port = 0
                /\ main[p].calls = 0

\* C9 witness: one instance is in its loop holding the port, a second one
\* started with the same port has exited with the message naming it.
C9_Witness ==
    \E p, q \in Procs :
        /\ p # q
        /\ main[p].port = main[q].port
        /\ main[p].pc = "looping" /\ main[p].calls >= 1
        /\ bound[main[p].port] = p
        /\ main[q].pc = "exit_in_use"
        /\ main[q].message_port = main[q].port

====
